---- MODULE Spec2Model ----
(***************************************************************************)
(* A model of bikeshare.py: the interactive statistics() session, the      *)
(* date-range filter, the aggregators and the paginated record display.    *)
(*                                                                         *)
(* Text is modelled as a sequence of one-character strings so that         *)
(* str.lower(), int(), string comparison and concatenation are computed    *)
(* character by character.                                                 *)
(***************************************************************************)
EXTENDS Integers, Sequences, FiniteSets, TLC

VARIABLES pc, city_file_name, loaded, city_data, city_data_elements,
          tp_input, m, time_period, i, calls, printed, failed, io

vars == <<pc, city_file_name, loaded, city_data, city_data_elements,
          tp_input, m, time_period, i, calls, printed, failed, io>>

(***************************************************************************)
(* Bounds of the model.                                                    *)
(***************************************************************************)
MaxRows == 5
MaxFilterRows == 3
MaxAggRows == 3
MaxDisplayRows == 16

(***************************************************************************)
(* Characters and strings.                                                 *)
(***************************************************************************)
\* The characters used by the model, in code-point order.
Alphabet ==
    <<" ", "+", "-", ".",
      "0", "1", "2", "3", "4", "5", "6", "7", "8", "9",
      "A", "B", "C", "D", "E", "F", "G", "H", "I", "J", "K", "L", "M",
      "N", "O", "P", "Q", "R", "S", "T", "U", "V", "W", "X", "Y", "Z",
      "a", "b", "c", "d", "e", "f", "g", "h", "i", "j", "k", "l", "m",
      "n", "o", "p", "q", "r", "s", "t", "u", "v", "w", "x", "y", "z">>

Chars == {Alphabet[k] : k \in 1..Len(Alphabet)}

\* ord(c), as the position in Alphabet
CodePoint == [c \in Chars |-> CHOOSE k \in 1..Len(Alphabet) : Alphabet[k] = c]

Ord(c) == CodePoint[c]

IsUpper(c) == Ord(c) >= Ord("A") /\ Ord(c) <= Ord("Z")
IsDigit(c) == Ord(c) >= Ord("0") /\ Ord(c) <= Ord("9")

\* the lower-case letter of an upper-case letter, every other character itself
LowerChar == [c \in Chars |-> IF IsUpper(c) THEN Alphabet[Ord(c) + 26] ELSE c]

\* str.lower()
Lower(s) == [k \in 1..Len(s) |-> LowerChar[s[k]]]

\* str < str, by code point, a proper prefix being the smaller
RECURSIVE StrLess(_, _)
StrLess(s, t) ==
    IF t = <<>> THEN FALSE
    ELSE IF s = <<>> THEN TRUE
    ELSE IF s[1] # t[1] THEN Ord(s[1]) < Ord(t[1])
    ELSE StrLess(Tail(s), Tail(t))

\* str.strip() for blanks
RECURSIVE LStrip(_)
LStrip(s) == IF s # <<>> /\ s[1] = " " THEN LStrip(Tail(s)) ELSE s

RECURSIVE RStrip(_)
RStrip(s) ==
    IF s # <<>> /\ s[Len(s)] = " " THEN RStrip(SubSeq(s, 1, Len(s) - 1)) ELSE s

Strip(s) == RStrip(LStrip(s))

RECURSIVE DigitsValue(_)
DigitsValue(s) ==
    IF s = <<>> THEN 0
    ELSE 10 * DigitsValue(SubSeq(s, 1, Len(s) - 1)) + (Ord(s[Len(s)]) - Ord("0"))

AllDigits(s) == s # <<>> /\ \A k \in 1..Len(s) : IsDigit(s[k])

\* int(str): blanks stripped, an optional sign, then decimal digits;
\* anything else is a ValueError.
IntParse(s) ==
    LET t == Strip(s)
        signed == t # <<>> /\ t[1] \in {"+", "-"}
        body == IF signed THEN Tail(t) ELSE t
    IN  IF AllDigits(body)
        THEN [ok |-> TRUE,
              val |-> IF signed /\ t[1] = "-" THEN 0 - DigitsValue(body)
                      ELSE DigitsValue(body)]
        ELSE [ok |-> FALSE, val |-> 0]

Range(s) == {s[k] : k \in 1..Len(s)}

\* list.index(x) + 1
IndexOf(s, x) == CHOOSE k \in 1..Len(s) : s[k] = x /\ \A j \in 1..(k - 1) : s[j] # x

(***************************************************************************)
(* The calendar and datetime modules.                                      *)
(***************************************************************************)
isleap(year) == year % 4 = 0 /\ (year % 100 # 0 \/ year % 400 = 0)

mdays == <<31, 28, 31, 30, 31, 30, 31, 31, 30, 31, 30, 31>>

\* calendar.monthrange(year, month)[1]
monthrange(year, month) ==
    mdays[month] + (IF month = 2 /\ isleap(year) THEN 1 ELSE 0)

month_name ==
    <<"January", "February", "March", "April", "May", "June",
      "July", "August", "September", "October", "November", "December">>

\* calendar.day_name, indexed from Monday = 0
day_name ==
    <<"Monday", "Tuesday", "Wednesday", "Thursday", "Friday", "Saturday", "Sunday">>

\* datetime.date(year, month, day)
Date(year, month, day) == [year |-> year, month |-> month, day |-> day]

\* date <= date: the comparison of (year, month, day)
DateLE(a, b) ==
    \/ a.year < b.year
    \/ a.year = b.year /\ a.month < b.month
    \/ a.year = b.year /\ a.month = b.month /\ a.day <= b.day

RECURSIVE DaysBeforeMonth(_, _)
DaysBeforeMonth(year, month) ==
    IF month = 1 THEN 0
    ELSE DaysBeforeMonth(year, month - 1) + monthrange(year, month - 1)

\* date.toordinal()
toordinal(d) ==
    LET y == d.year - 1
    IN  y * 365 + (y \div 4) - (y \div 100) + (y \div 400)
        + DaysBeforeMonth(d.year, d.month) + d.day

\* date.weekday(): Monday = 0 .. Sunday = 6
weekday(d) == (toordinal(d) + 6) % 7

\* Series.dt.date of a timestamp: the time of day is dropped
DtDate(ts) == Date(ts.year, ts.month, ts.day)

(***************************************************************************)
(* The data frame: column names and rows in file order.                    *)
(***************************************************************************)
ColStartTime == <<"S", "t", "a", "r", "t", " ", "T", "i", "m", "e">>
ColEndTime == <<"E", "n", "d", " ", "T", "i", "m", "e">>
ColTripDuration == <<"T", "r", "i", "p", " ", "D", "u", "r", "a", "t", "i", "o", "n">>
ColStartStation == <<"S", "t", "a", "r", "t", " ", "S", "t", "a", "t", "i", "o", "n">>
ColEndStation == <<"E", "n", "d", " ", "S", "t", "a", "t", "i", "o", "n">>
ColUserType == <<"U", "s", "e", "r", " ", "T", "y", "p", "e">>
ColGender == <<"G", "e", "n", "d", "e", "r">>
ColBirthYear == <<"B", "i", "r", "t", "h", " ", "Y", "e", "a", "r">>

\* An empty field of the file is read as NaN.
NaNStr == ""
NaNYear == 0
NaNStation == <<>>

Ok(v) == [ok |-> TRUE, val |-> v, exc |-> "none"]
Raise(e) == [ok |-> FALSE, val |-> <<>>, exc |-> e]

HasCol(df, name) == name \in Range(df.cols)

\* [x.lower() for x in city_data]: the lower-cased column names
ColumnElements(df) == [k \in 1..Len(df.cols) |-> Lower(df.cols[k])]

StartTimes(df) == [k \in 1..Len(df.rows) |-> df.rows[k].start_time]

(***************************************************************************)
(* Series.value_counts(), DataFrame.groupby().size() and sort_values().    *)
(***************************************************************************)
RECURSIVE Uniques(_)
\* the distinct values of a series in order of first appearance
Uniques(s) ==
    IF s = <<>> THEN <<>>
    ELSE LET u == Uniques(SubSeq(s, 1, Len(s) - 1))
             v == s[Len(s)]
         IN  IF v \in Range(u) THEN u ELSE Append(u, v)

Count(s, v) == Cardinality({k \in 1..Len(s) : s[k] = v})

DropNa(s, nan) == SelectSeq(s, LAMBDA v : v # nan)

RemoveAt(s, k) == SubSeq(s, 1, k - 1) \o SubSeq(s, k + 1, Len(s))

\* sort_values(ascending=False) of <<key, count>> entries, with the default
\* sort: the counts descend and the order of entries of equal count is left
\* to the library, so every such order is a possible result
SortValuesDescending(entries) ==
    LET n == Len(entries)
        orders == {q \in [1..n -> 1..n] :
                     /\ \A a, b \in 1..n : a # b => q[a] # q[b]
                     /\ \A a \in 1..(n - 1) :
                           entries[q[a]][2] >= entries[q[a + 1]][2]}
    IN  {[k \in 1..n |-> entries[q[k]]] : q \in orders}

\* value_counts(): NaN dropped, one <<value, count>> entry per distinct value,
\* sorted by descending count; the possible results
value_counts(s, nan) ==
    LET t == DropNa(s, nan)
        u == Uniques(t)
    IN  SortValuesDescending([k \in 1..Len(u) |-> <<u[k], Count(t, u[k])>>])

\* the order of group keys (start station, end station)
KeyLess(a, b) == StrLess(a[1], b[1]) \/ (a[1] = b[1] /\ StrLess(a[2], b[2]))

RECURSIVE SortKeys(_)
SortKeys(keys) ==
    IF keys = <<>> THEN <<>>
    ELSE LET k == CHOOSE j \in 1..Len(keys) :
                      \A l \in 1..Len(keys) : l = j \/ KeyLess(keys[j], keys[l])
         IN  <<keys[k]>> \o SortKeys(RemoveAt(keys, k))

\* groupby(['Start Station', 'End Station']).size(): rows with a NaN key are
\* dropped, groups come in sorted key order
GroupBySize(df) ==
    LET pairs == [k \in 1..Len(df.rows) |->
                     <<df.rows[k].start_station, df.rows[k].end_station>>]
        kept == SelectSeq(pairs, LAMBDA p : p[1] # NaNStation /\ p[2] # NaNStation)
        keys == SortKeys(Uniques(kept))
    IN  [k \in 1..Len(keys) |-> <<keys[k], Count(kept, keys[k])>>]

(***************************************************************************)
(* filter_city_data and the aggregators.                                   *)
(***************************************************************************)
\* a filter that compares the timestamps with the dates at midnight
filter_city_data_AtMidnight(df, tp) ==
    LET lo == Date(tp.year, tp.month, tp.day[1])
        hi == Date(tp.year, tp.month, tp.day[2])
    IN  [df EXCEPT !.rows =
            SelectSeq(df.rows,
                      LAMBDA r : /\ DateLE(lo, DtDate(r.start_time))
                                 /\ \/ (DtDate(r.start_time) # hi
                                          /\ DateLE(DtDate(r.start_time), hi))
                                    \/ (DtDate(r.start_time) = hi
                                          /\ r.start_time.hour = 0))]

filter_city_data(df, tp) ==
    LET lo == Date(tp.year, tp.month, tp.day[1])
        hi == Date(tp.year, tp.month, tp.day[2])
    IN  [df EXCEPT !.rows =
            SelectSeq(df.rows, LAMBDA r : /\ DateLE(lo, DtDate(r.start_time))
                                          /\ DateLE(DtDate(r.start_time), hi))]

\* The aggregators give the set of results the call can have: one result,
\* or one for each order the library may leave equal counts in.

\* a most popular month taken from the wrong end of the counts
popular_month_Last(df) ==
    LET ts == StartTimes(df)
    IN  {IF month_values = <<>> THEN Raise("IndexError")
         ELSE Ok(<<month_name[month_values[Len(month_values)][1]],
                   month_values[Len(month_values)][2]>>) :
            month_values \in value_counts([k \in 1..Len(ts) |-> ts[k].month], 0)}

popular_month(df) ==
    LET ts == StartTimes(df)
    IN  {IF month_values = <<>> THEN Raise("IndexError")
         ELSE Ok(<<month_name[month_values[1][1]], month_values[1][2]>>) :
            month_values \in value_counts([k \in 1..Len(ts) |-> ts[k].month], 0)}

popular_day(df) ==
    LET ts == StartTimes(df)
    IN  {IF day_values = <<>> THEN Raise("IndexError")
         ELSE Ok(<<day_name[day_values[1][1] + 1], day_values[1][2]>>) :
            day_values \in value_counts([k \in 1..Len(ts) |-> weekday(DtDate(ts[k]))],
                                        0 - 1)}

popular_hour(df) ==
    LET ts == StartTimes(df)
    IN  {IF hour_values = <<>> THEN Raise("IndexError")
         ELSE Ok(<<hour_values[1][1], hour_values[1][2]>>) :
            hour_values \in value_counts([k \in 1..Len(ts) |-> ts[k].hour], 0 - 1)}

RECURSIVE SumSeq(_)
SumSeq(s) == IF s = <<>> THEN 0 ELSE s[1] + SumSeq(Tail(s))

\* the mean is kept as the pair <<sum, count>>; it is NaN for an empty column
trip_duration(df) ==
    LET d == [k \in 1..Len(df.rows) |-> df.rows[k].duration]
    IN  {Ok([total |-> SumSeq(d),
             mean |-> IF d = <<>> THEN <<"nan">> ELSE <<SumSeq(d), Len(d)>>])}

popular_stations(df) ==
    {IF start = <<>> \/ end = <<>> THEN Raise("IndexError")
     ELSE Ok([start |-> start[1], end |-> end[1]]) :
        start \in value_counts([k \in 1..Len(df.rows) |-> df.rows[k].start_station],
                               NaNStation),
        end \in value_counts([k \in 1..Len(df.rows) |-> df.rows[k].end_station],
                             NaNStation)}

ToStr == <<" ", "t", "o", " ">>

\* a count of trips that ignores the direction of the trip
popular_trip_Unordered(df) ==
    LET flip(r) == IF StrLess(r.end_station, r.start_station)
                   THEN [r EXCEPT !.start_station = r.end_station,
                                  !.end_station = r.start_station]
                   ELSE r
        flipped == [df EXCEPT !.rows = [k \in 1..Len(df.rows) |-> flip(df.rows[k])]]
    IN  {IF trip = <<>> THEN Raise("KeyError")
         ELSE Ok(<<trip[1][1][1] \o ToStr \o trip[1][1][2], trip[1][2]>>) :
            trip \in SortValuesDescending(GroupBySize(flipped))}

popular_trip(df) ==
    {IF trip = <<>> THEN Raise("KeyError")
     ELSE Ok(<<trip[1][1][1] \o ToStr \o trip[1][1][2], trip[1][2]>>) :
        trip \in SortValuesDescending(GroupBySize(df))}

users(df) ==
    {Ok(vc) : vc \in value_counts([k \in 1..Len(df.rows) |-> df.rows[k].user_type],
                                  NaNStr)}

gender(df) ==
    IF ~HasCol(df, ColGender) THEN {Raise("KeyError")}
    ELSE {Ok(vc) : vc \in value_counts([k \in 1..Len(df.rows) |-> df.rows[k].gender],
                                       NaNStr)}

SeqMin(s) == CHOOSE v \in Range(s) : \A w \in Range(s) : v <= w
SeqMax(s) == CHOOSE v \in Range(s) : \A w \in Range(s) : v >= w

\* min() and max() skip NaN and are NaN when nothing is left; int(NaN) is a
\* ValueError
birth_years(df) ==
    IF ~HasCol(df, ColBirthYear) THEN {Raise("KeyError")}
    ELSE LET years == DropNa([k \in 1..Len(df.rows) |-> df.rows[k].birth_year],
                             NaNYear)
         IN  IF years = <<>> THEN {Raise("ValueError")}
             ELSE {Ok([oldest |-> SeqMin(years),
                       youngest |-> SeqMax(years),
                       mode |-> vc[1][1]]) : vc \in value_counts(years, NaNYear)}

(***************************************************************************)
(* The responses typed at the prompts.                                     *)
(***************************************************************************)
Str_chicago == <<"c", "h", "i", "c", "a", "g", "o">>
Str_new_york == <<"n", "e", "w", " ", "y", "o", "r", "k">>
Str_washington == <<"w", "a", "s", "h", "i", "n", "g", "t", "o", "n">>
Str_month == <<"m", "o", "n", "t", "h">>
Str_day == <<"d", "a", "y">>
Str_none == <<"n", "o", "n", "e">>
Str_yes == <<"y", "e", "s">>
Str_no == <<"n", "o">>
Str_c == <<"c">>
Str_continue == <<"c", "o", "n", "t", "i", "n", "u", "e">>
Str_gender == <<"g", "e", "n", "d", "e", "r">>
Str_birth_year == <<"b", "i", "r", "t", "h", " ", "y", "e", "a", "r">>

valid_months ==
    <<<<"j", "a", "n", "u", "a", "r", "y">>,
      <<"f", "e", "b", "r", "u", "a", "r", "y">>,
      <<"m", "a", "r", "c", "h">>,
      <<"a", "p", "r", "i", "l">>,
      <<"m", "a", "y">>,
      <<"j", "u", "n", "e">>>>

CityInputs ==
    {<<"C", "h", "i", "c", "a", "g", "o">>, <<"N", "E", "W", " ", "Y", "O", "R", "K">>,
     <<"w", "a", "s", "h", "i", "n", "g", "t", "o", "n">>, <<"B", "o", "s", "t", "o", "n">>, <<>>}

PeriodInputs ==
    {<<"M", "o", "n", "t", "h">>, <<"D", "A", "Y">>, <<"n", "o", "n", "e">>, <<"w", "e", "e", "k">>, <<>>}

MonthInputs ==
    {<<"J", "a", "n", "u", "a", "r", "y">>, <<"f", "e", "b", "r", "u", "a", "r", "y">>,
     <<"M", "A", "R", "C", "H">>, <<"A", "p", "r", "i", "l">>, <<"m", "a", "y">>,
     <<"J", "U", "N", "E">>, <<"J", "u", "l", "y">>, <<>>}

DayInputs ==
    {<<"1">>, <<" ", "2", "8", " ">>, <<"2", "9">>, <<"3", "1">>, <<"0">>, <<"3", "2">>,
     <<"-", "1">>, <<"1", ".", "5">>, <<"x">>, <<>>}

YesNoInputs ==
    {<<"y", "e", "s">>, <<"Y", "E", "S">>, <<"n", "o">>, <<"m", "a", "y", "b", "e">>, <<>>}

ContinueInputs ==
    {<<"c">>, <<"C", "o", "n", "t", "i", "n", "u", "e">>, <<"x">>, <<>>}

(***************************************************************************)
(* The data files.                                                         *)
(***************************************************************************)
chicago == "chicago.csv"
new_york_city == "new_york_city.csv"
washington == "washington.csv"

None == "None"

SchemaFull ==
    <<ColStartTime, ColEndTime, ColTripDuration, ColStartStation, ColEndStation,
      ColUserType, ColGender, ColBirthYear>>
SchemaNoDemographics ==
    <<ColStartTime, ColEndTime, ColTripDuration, ColStartStation, ColEndStation,
      ColUserType>>

Schemas == {SchemaFull, SchemaNoDemographics}

StationA == <<"A">>
StationB == <<"B">>
StationC == <<"C">>

Timestamp(year, month, day, hour) ==
    [year |-> year, month |-> month, day |-> day, hour |-> hour]

Trip(ts, duration, from, to, user, sex, born) ==
    [start_time |-> ts, duration |-> duration, start_station |-> from,
     end_station |-> to, user_type |-> user, gender |-> sex, birth_year |-> born]

\* read_csv: the rows of the file in file order, each with its index value,
\* holding the columns the file has
DataFrame(cols, trips) ==
    [cols |-> cols,
     rows |-> [k \in 1..Len(trips) |->
                 [idx |-> k,
                  start_time |-> trips[k].start_time,
                  duration |-> trips[k].duration,
                  start_station |-> trips[k].start_station,
                  end_station |-> trips[k].end_station,
                  user_type |-> trips[k].user_type,
                  gender |-> IF ColGender \in Range(cols)
                             THEN trips[k].gender ELSE NaNStr,
                  birth_year |-> IF ColBirthYear \in Range(cols)
                                 THEN trips[k].birth_year ELSE NaNYear]]]

\* the non-empty sequences over S of at most n elements
SeqsUpTo(S, n) == UNION {[1..k -> S] : k \in 1..n}

\* the trips a data file of a session is made of
SessionTrips ==
    {Trip(Timestamp(2017, 1, 31, 8), 10, StationA, StationB, "Subscriber", "Male", 1980),
     Trip(Timestamp(2017, 2, 28, 23), 20, StationB, StationA, "Customer", NaNStr, NaNYear)}

CsvFiles ==
    {DataFrame(cols, trips) : cols \in Schemas, trips \in SeqsUpTo(SessionTrips, MaxRows)}

NoData == [cols |-> <<>>, rows |-> <<>>]
NoPeriod == [period |-> "unset", year |-> None, month |-> None, day |-> <<None, None>>]
NoInput == [prompt |-> "none", resp |-> <<>>, err |-> "none"]

(***************************************************************************)
(* get_time_period, get_month, get_day.                                    *)
(***************************************************************************)
\* a month selector computed for a leap year
TimePeriodMonth_Leap(month) ==
    [period |-> "month", year |-> 2017, month |-> month,
     day |-> <<1, monthrange(2016, month)>>]

TimePeriodMonth(month) ==
    [period |-> "month", year |-> 2017, month |-> month,
     day |-> <<1, monthrange(2017, month)>>]

TimePeriodDay(month, day) ==
    [period |-> "day", year |-> 2017, month |-> month, day |-> <<day, day>>]

TimePeriodNone ==
    [period |-> "none", year |-> None, month |-> None, day |-> <<None, None>>]

\* a day check that ignores the length of the month
DayInRange_To31(day, month) == 1 <= day /\ day <= 31

\* 1 <= day <= last_day_of_month
DayInRange(day, month) == 1 <= day /\ day <= monthrange(2017, month)

\* a gender stage that does not look at the schema
GenderAvailable_Always(elements) == TRUE

\* 'gender' in city_data_elements
GenderAvailable(elements) == Str_gender \in Range(elements)

\* 'birth year' in city_data_elements
BirthYearAvailable(elements) == Str_birth_year \in Range(elements)

(***************************************************************************)
(* The session: statistics().                                              *)
(***************************************************************************)
Init ==
    /\ pc = "city"
    /\ city_file_name = None
    /\ loaded = NoData
    /\ city_data = NoData
    /\ city_data_elements = <<>>
    /\ tp_input = <<>>
    /\ m = 0
    /\ time_period = NoPeriod
    /\ i = 0
    /\ calls = <<>>
    /\ printed = <<>>
    /\ failed = <<>>
    /\ io = NoInput

Say(tag, val) == Append(printed, [tag |-> tag, val |-> val])

Asked(prompt, resp, err) == [prompt |-> prompt, resp |-> resp, err |-> err]

CityFile(city) ==
    IF city = Str_chicago THEN chicago
    ELSE IF city = Str_new_york THEN new_york_city
    ELSE IF city = Str_washington THEN washington
    ELSE None

\* get_city_filename, then open_file and the schema check
GetCityFilename(resp) ==
    /\ pc = "city"
    /\ LET city == Lower(resp)
       IN  IF CityFile(city) # None
           THEN \E df \in CsvFiles :
                  /\ city_file_name' = CityFile(city)
                  /\ loaded' = df
                  /\ city_data' = df
                  /\ city_data_elements' = ColumnElements(df)
                  /\ printed' = Say("loaded", <<>>)
                  /\ io' = Asked("city", resp, "none")
                  /\ pc' = "period"
           ELSE /\ io' = Asked("city", resp, "invalid_city")
                /\ UNCHANGED <<printed, pc, city_file_name, loaded, city_data,
                               city_data_elements>>
    /\ UNCHANGED <<tp_input, m, time_period, i, calls, failed>>

\* get_time_period: the granularity prompt
GetTimePeriod(resp) ==
    /\ pc = "period"
    /\ LET period == Lower(resp)
       IN  IF period = Str_month \/ period = Str_day
           THEN /\ tp_input' = period
                /\ pc' = "month"
                /\ io' = Asked("period", resp, "none")
                /\ UNCHANGED <<time_period, printed>>
           ELSE IF period = Str_none
           THEN /\ tp_input' = period
                /\ time_period' = TimePeriodNone
                /\ pc' = "filter"
                /\ io' = Asked("period", resp, "none")
                /\ UNCHANGED printed
           ELSE /\ io' = Asked("period", resp, "invalid_filter")
                /\ UNCHANGED <<printed, pc, tp_input, time_period>>
    /\ UNCHANGED <<city_file_name, loaded, city_data, city_data_elements, m, i,
                   calls, failed>>

\* get_month, and the return of get_time_period for granularity month
GetMonth(resp) ==
    /\ pc = "month"
    /\ LET month == Lower(resp)
       IN  IF month \in Range(valid_months)
           THEN /\ m' = IndexOf(valid_months, month)
                /\ io' = Asked("month", resp, "none")
                /\ IF tp_input = Str_month
                   THEN /\ time_period' = TimePeriodMonth(m')
                        /\ pc' = "filter"
                   ELSE /\ pc' = "day"
                        /\ UNCHANGED time_period
                /\ UNCHANGED printed
           ELSE /\ io' = Asked("month", resp, "invalid_month")
                /\ UNCHANGED <<printed, pc, m, time_period>>
    /\ UNCHANGED <<city_file_name, loaded, city_data, city_data_elements, tp_input,
                   i, calls, failed>>

\* get_day, and the return of get_time_period for granularity day
GetDay(resp) ==
    /\ pc = "day"
    /\ LET day == IntParse(resp)
       IN  IF day.ok /\ DayInRange(day.val, m)
           THEN /\ time_period' = TimePeriodDay(m, day.val)
                /\ pc' = "filter"
                /\ io' = Asked("day", resp, "none")
                /\ UNCHANGED printed
           ELSE /\ io' = Asked("day", resp, "invalid_day")
                /\ UNCHANGED <<printed, pc, time_period>>
    /\ UNCHANGED <<city_file_name, loaded, city_data, city_data_elements, tp_input,
                   m, i, calls, failed>>

\* the filter is applied for granularity month or day
FilterStage ==
    /\ pc = "filter"
    /\ IF time_period.period = "month" \/ time_period.period = "day"
       THEN /\ city_data' = filter_city_data(city_data, time_period)
            /\ calls' = Append(calls, "filter_city_data")
            /\ printed' = Say("filtered", <<>>)
       ELSE UNCHANGED <<city_data, calls, printed>>
    /\ pc' = "popular_month"
    /\ UNCHANGED <<city_file_name, loaded, city_data_elements, tp_input, m,
                   time_period, i, failed, io>>

\* One stage of the report: the aggregator is called when the stage applies;
\* its result (one of results) is printed, or its exception leaves
\* statistics().
Stage(name, here, next, applies, results, skipped) ==
    /\ pc = here
    /\ IF applies
       THEN \E result \in results :
              /\ calls' = Append(calls, name)
              /\ IF result.ok
                 THEN /\ printed' = Say(name, result.val)
                      /\ pc' = next
                      /\ UNCHANGED failed
                 ELSE /\ failed' = Append(failed, [stage |-> name, exc |-> result.exc])
                      /\ pc' = "crashed"
                      /\ UNCHANGED printed
       ELSE /\ printed' = (IF skipped = None THEN printed ELSE Say(skipped, <<>>))
            /\ pc' = next
            /\ UNCHANGED <<calls, failed>>
    /\ UNCHANGED <<city_file_name, loaded, city_data, city_data_elements, tp_input,
                   m, time_period, i, io>>

PopularMonthStage ==
    Stage("popular_month", "popular_month", "popular_day",
          time_period.period = "none", popular_month(city_data), None)

PopularDayStage ==
    Stage("popular_day", "popular_day", "popular_hour",
          time_period.period = "none" \/ time_period.period = "month",
          popular_day(city_data), None)

\* the value None of an aggregator result
NoneResult == <<>>

\* popular_hour returns a tuple or raises; the caller prints the result, or
\* 'not available' when the result is None
PopularHourStage ==
    \E stat_popular_hour \in popular_hour(city_data) :
        /\ pc = "popular_hour"
        /\ calls' = Append(calls, "popular_hour")
        /\ IF ~stat_popular_hour.ok
           THEN /\ failed' = Append(failed, [stage |-> "popular_hour",
                                             exc |-> stat_popular_hour.exc])
                /\ pc' = "crashed"
                /\ UNCHANGED printed
           ELSE /\ printed' = (IF stat_popular_hour.val # NoneResult
                               THEN Say("popular_hour", stat_popular_hour.val)
                               ELSE Say("hour_na", <<>>))
                /\ pc' = "trip_duration"
                /\ UNCHANGED failed
        /\ UNCHANGED <<city_file_name, loaded, city_data, city_data_elements,
                       tp_input, m, time_period, i, io>>

TripDurationStage ==
    Stage("trip_duration", "trip_duration", "popular_stations",
          TRUE, trip_duration(city_data), None)

PopularStationsStage ==
    Stage("popular_stations", "popular_stations", "popular_trip",
          TRUE, popular_stations(city_data), None)

PopularTripStage ==
    Stage("popular_trip", "popular_trip", "users",
          TRUE, popular_trip(city_data), None)

UsersStage ==
    Stage("users", "users", "gender", TRUE, users(city_data), None)

GenderStage ==
    Stage("gender", "gender", "birth_years",
          GenderAvailable(city_data_elements), gender(city_data), "gender_na")

BirthYearsStage ==
    Stage("birth_years", "birth_years", "display_data",
          BirthYearAvailable(city_data_elements), birth_years(city_data),
          "birth_year_na")

(***************************************************************************)
(* display_data, display_tabular_data and the restart prompt.              *)
(***************************************************************************)
\* number of rows to display per pass
x == 5

Min(a, b) == IF a <= b THEN a ELSE b

\* city_file[i:i+x]
Slice(rows, from, to) == SubSeq(rows, from + 1, Min(to, Len(rows)))

DisplayData(resp) ==
    /\ pc = "display_data"
    /\ LET display == Lower(resp)
       IN  IF display = Str_yes
           THEN /\ i' = 0
                /\ printed' = Say("trip_details", <<>>)
                /\ io' = Asked("display_data", resp, "none")
                /\ pc' = "display_page"
           ELSE IF display = Str_no
           THEN /\ io' = Asked("display_data", resp, "none")
                /\ pc' = "restart"
                /\ UNCHANGED <<i, printed>>
           ELSE /\ io' = Asked("display_data", resp, "invalid_response")
                /\ UNCHANGED <<printed, pc, i>>
    /\ UNCHANGED <<city_file_name, loaded, city_data, city_data_elements, tp_input,
                   m, time_period, calls, failed>>

\* one pass of the loop of display_tabular_data, up to its prompt or its break
DisplayPage ==
    /\ pc = "display_page"
    /\ i' = i + x
    /\ IF i' > Len(city_data.rows)
       THEN /\ printed' = Append(Say("page", Slice(city_data.rows, i, i + x)),
                                 [tag |-> "end_of_file", val |-> <<>>])
            /\ pc' = "restart"
       ELSE /\ printed' = Say("page", Slice(city_data.rows, i, i + x))
            /\ pc' = "continue"
    /\ UNCHANGED <<city_file_name, loaded, city_data, city_data_elements, tp_input,
                   m, time_period, calls, failed, io>>

\* the continue/stop prompt of display_tabular_data
Continue(resp) ==
    /\ pc = "continue"
    /\ LET response == Lower(resp)
       IN  IF response = Str_continue \/ response = Str_c
           THEN pc' = "display_page"
           ELSE pc' = "restart"
    /\ io' = Asked("continue", resp, "none")
    /\ UNCHANGED <<city_file_name, loaded, city_data, city_data_elements, tp_input,
                   m, time_period, i, calls, printed, failed>>

\* the restart prompt: 'yes' starts a new session, anything else quits
Restart(resp) ==
    /\ pc = "restart"
    /\ IF Lower(resp) = Str_yes
       THEN /\ pc' = "city"
            /\ city_file_name' = None
            /\ loaded' = NoData
            /\ city_data' = NoData
            /\ city_data_elements' = <<>>
            /\ tp_input' = <<>>
            /\ m' = 0
            /\ time_period' = NoPeriod
            /\ i' = 0
            /\ calls' = <<>>
            /\ printed' = <<>>
            /\ failed' = <<>>
       ELSE /\ pc' = "exit"
            /\ UNCHANGED <<city_file_name, loaded, city_data, city_data_elements,
                           tp_input, m, time_period, i, calls, printed, failed>>
    /\ io' = Asked("restart", resp, "none")

Next ==
    \/ \E resp \in CityInputs : GetCityFilename(resp)
    \/ \E resp \in PeriodInputs : GetTimePeriod(resp)
    \/ \E resp \in MonthInputs : GetMonth(resp)
    \/ \E resp \in DayInputs : GetDay(resp)
    \/ FilterStage
    \/ PopularMonthStage
    \/ PopularDayStage
    \/ PopularHourStage
    \/ TripDurationStage
    \/ PopularStationsStage
    \/ PopularTripStage
    \/ UsersStage
    \/ GenderStage
    \/ BirthYearsStage
    \/ \E resp \in YesNoInputs : DisplayData(resp)
    \/ DisplayPage
    \/ \E resp \in ContinueInputs : Continue(resp)
    \/ \E resp \in YesNoInputs : Restart(resp)

Spec == Init /\ [][Next]_vars

(***************************************************************************)
(* The filter applied to a loaded table: every table of FilterTrips and    *)
(* every selector get_time_period returns for the days of FilterDays.      *)
(***************************************************************************)
FilterTrips ==
    {Trip(ts, 10, StationA, StationB, "Subscriber", "Male", 1980) :
        ts \in {Timestamp(2016, 2, 15, 12), Timestamp(2017, 1, 31, 23),
                Timestamp(2017, 2, 1, 0), Timestamp(2017, 2, 15, 12),
                Timestamp(2017, 2, 28, 23), Timestamp(2017, 3, 1, 0),
                Timestamp(2017, 6, 30, 23), Timestamp(2018, 2, 28, 8)}}

FilterDays == {1, 15, 28, 29, 30, 31}

FilterSelectors ==
    {TimePeriodMonth(month) : month \in 1..Len(valid_months)}
    \cup {TimePeriodDay(sel[1], sel[2]) :
            sel \in {p \in (1..Len(valid_months)) \X FilterDays : DayInRange(p[2], p[1])}}

InitFilter ==
    /\ pc = "filter"
    /\ city_file_name = chicago
    /\ \E trips \in SeqsUpTo(FilterTrips, MaxFilterRows) :
          /\ loaded = DataFrame(SchemaFull, trips)
          /\ city_data = loaded
    /\ city_data_elements = ColumnElements(loaded)
    /\ time_period \in FilterSelectors
    /\ tp_input = (IF time_period.period = "month" THEN Str_month ELSE Str_day)
    /\ m = time_period.month
    /\ i = 0
    /\ calls = <<>>
    /\ printed = <<[tag |-> "loaded", val |-> <<>>]>>
    /\ failed = <<>>
    /\ io = NoInput

NextFilter == FilterStage

SpecFilter == InitFilter /\ [][NextFilter]_vars

(***************************************************************************)
(* The aggregators applied to a loaded table, without a filter.            *)
(***************************************************************************)
AggTrips ==
    {Trip(when[1], 10, route[1], route[2], "Subscriber", "Male", when[2]) :
        when \in {<<Timestamp(2017, 1, 2, 8), 1980>>,
                  <<Timestamp(2017, 2, 28, 17), 1995>>},
        route \in {<<StationA, StationB>>, <<StationB, StationA>>,
                   <<StationA, StationC>>}}

InitAgg ==
    /\ pc = "popular_month"
    /\ city_file_name = chicago
    /\ \E trips \in SeqsUpTo(AggTrips, MaxAggRows) :
          /\ loaded = DataFrame(SchemaFull, trips)
          /\ city_data = loaded
    /\ city_data_elements = ColumnElements(loaded)
    /\ time_period = TimePeriodNone
    /\ tp_input = Str_none
    /\ m = 0
    /\ i = 0
    /\ calls = <<>>
    /\ printed = <<[tag |-> "loaded", val |-> <<>>]>>
    /\ failed = <<>>
    /\ io = NoInput

NextAgg ==
    \/ PopularMonthStage
    \/ PopularDayStage
    \/ PopularHourStage
    \/ TripDurationStage
    \/ PopularStationsStage
    \/ PopularTripStage
    \/ UsersStage
    \/ GenderStage
    \/ BirthYearsStage

SpecAgg == InitAgg /\ [][NextAgg]_vars

(***************************************************************************)
(* display_tabular_data applied to tables of 0..MaxDisplayRows rows.       *)
(***************************************************************************)
DisplayTrip == Trip(Timestamp(2017, 1, 31, 8), 10, StationA, StationB,
                    "Subscriber", "Male", 1980)

InitDisplay ==
    /\ pc = "display_page"
    /\ city_file_name = chicago
    /\ \E n \in 0..MaxDisplayRows :
          /\ loaded = DataFrame(SchemaFull, [k \in 1..n |-> DisplayTrip])
          /\ city_data = loaded
    /\ city_data_elements = ColumnElements(loaded)
    /\ time_period = TimePeriodNone
    /\ tp_input = Str_none
    /\ m = 0
    /\ i = 0
    /\ calls = <<>>
    /\ printed = <<[tag |-> "trip_details", val |-> <<>>]>>
    /\ failed = <<>>
    /\ io = NoInput

NextDisplay ==
    \/ DisplayPage
    \/ \E resp \in ContinueInputs : Continue(resp)

SpecDisplay == InitDisplay /\ [][NextDisplay]_vars

(***************************************************************************)
(* Properties.                                                             *)
(***************************************************************************)
Has(tag) == \E k \in 1..Len(printed) : printed[k].tag = tag
Val(tag) == printed[CHOOSE k \in 1..Len(printed) : printed[k].tag = tag].val
Called(name) == name \in Range(calls)
Failed(name) == \E k \in 1..Len(failed) : failed[k].stage = name

\* the last day of each month of January..June 2017
LastDay2017 == <<31, 28, 31, 30, 31, 30>>

\* the date of a row as a day number
DayNumber(r) == toordinal(DtDate(r.start_time))

InSelectedRange(r) ==
    /\ toordinal(Date(2017, time_period.month, time_period.day[1])) <= DayNumber(r)
    /\ DayNumber(r) <= toordinal(Date(2017, time_period.month, time_period.day[2]))

\* C1: after filter_city_data the table holds exactly the loaded rows whose
\* start date lies in [start_date, end_date] of the selector, both bounds
\* inclusive and the time of day ignored, in their original order; for a day
\* selector every kept row starts on exactly that day.
C1_FilterKeepsExactlyRange ==
    Called("filter_city_data") =>
        /\ city_data.rows = SelectSeq(loaded.rows, InSelectedRange)
        /\ \A k \in 1..Len(loaded.rows) :
              InSelectedRange(loaded.rows[k]) <=> loaded.rows[k] \in Range(city_data.rows)
        /\ time_period.period = "day" =>
              \A k \in 1..Len(city_data.rows) :
                 DtDate(city_data.rows[k].start_time)
                    = Date(2017, time_period.month, time_period.day[1])

\* a month filter that kept a row of the last day late in the evening and
\* dropped rows of the neighbouring months and years
C1_Witness ==
    /\ Called("filter_city_data")
    /\ time_period = TimePeriodMonth(2)
    /\ Len(loaded.rows) = 3
    /\ Len(city_data.rows) = 1
    /\ city_data.rows[1].start_time = Timestamp(2017, 2, 28, 23)
    /\ \E k \in 1..3 : loaded.rows[k].start_time = Timestamp(2018, 2, 28, 8)
    /\ \E k \in 1..3 : loaded.rows[k].start_time = Timestamp(2017, 3, 1, 0)

\* C2: the selector returned for granularity month has year 2017 and the day
\* range [1, last day of the month in 2017]; February gives [1, 28].
C2_MonthSelectorRange ==
    time_period.period = "month" =>
        /\ time_period.month \in 1..6
        /\ time_period.year = 2017
        /\ time_period.day = <<1, LastDay2017[time_period.month]>>
        /\ time_period.month = 2 => time_period.day = <<1, 28>>

C2_Witness ==
    /\ pc = "filter"
    /\ time_period.period = "month"
    /\ time_period.month = 2
    /\ time_period.day = <<1, 28>>

AfterAggregates == {"display_data", "display_page", "continue", "restart", "exit"}

\* C3: in a session that has left the aggregate stages (normally or not),
\* popular_month was called iff the granularity is none, popular_day iff it
\* is none or month, popular_hour always, and the filter was applied, before
\* any aggregator, iff the granularity is not none.
C3_StageSelection ==
    pc \in AfterAggregates \cup {"crashed"} =>
        /\ Called("popular_month") <=> time_period.period = "none"
        /\ Called("popular_day") <=> time_period.period \in {"none", "month"}
        /\ Called("popular_hour")
        /\ Called("filter_city_data") <=> time_period.period # "none"
        /\ Called("filter_city_data") => calls[1] = "filter_city_data"

\* C4: popular_hour on an empty table reports 'not available' and the session
\* goes on.
C4_EmptyHourNotAvailable ==
    (Called("popular_hour") /\ city_data.rows = <<>>) =>
        /\ pc # "crashed"
        /\ Has("hour_na")

\* C5: a failing stage does not end the session: the later stages and the
\* restart prompt are still reached.
C5_StageFailuresIsolated ==
    failed # <<>> => pc \in AfterAggregates \cup
                           {"popular_day", "popular_hour", "trip_duration",
                            "popular_stations", "popular_trip", "users", "gender",
                            "birth_years"}

\* C6: gender is called only when the loaded schema has a gender column and
\* birth_years only when it has a birth-year column, the case of the column
\* name ignored; the decision is the one taken at load; an absent column
\* gives the 'data not available' message and no failure.
C6_OptionalColumns ==
    /\ Called("gender") => \E k \in 1..Len(loaded.cols) : Lower(loaded.cols[k]) = Str_gender
    /\ Called("birth_years") =>
          \E k \in 1..Len(loaded.cols) : Lower(loaded.cols[k]) = Str_birth_year
    /\ pc # "city" => city_data_elements = ColumnElements(loaded)
    /\ (ColGender \notin Range(loaded.cols)
          /\ (pc \in AfterAggregates \cup {"birth_years"} \/ Called("birth_years")))
       => (Has("gender_na") /\ ~Called("gender") /\ ~Failed("gender"))
    /\ (ColBirthYear \notin Range(loaded.cols) /\ pc \in AfterAggregates)
       => (Has("birth_year_na") /\ ~Called("birth_years") /\ ~Failed("birth_years"))

\* a filtered session on a file without the optional columns, past both stages
C6_Witness ==
    /\ pc = "display_data"
    /\ loaded.cols = SchemaNoDemographics
    /\ Called("filter_city_data")
    /\ Has("gender_na")
    /\ Has("birth_year_na")
    /\ ~Called("gender")
    /\ ~Called("birth_years")

ValidatedPrompts == {"city", "period", "month", "day", "display_data"}

\* the responses a prompt is meant to take
ValidResponse(prompt, resp) ==
    CASE prompt = "city" -> Lower(resp) \in {Str_chicago, Str_new_york, Str_washington}
      [] prompt = "period" -> Lower(resp) \in {Str_month, Str_day, Str_none}
      [] prompt = "month" -> Lower(resp) \in Range(valid_months)
      [] prompt = "day" -> /\ IntParse(resp).ok
                           /\ IntParse(resp).val \in 1..LastDay2017[m]
      [] prompt = "display_data" -> Lower(resp) \in {Str_yes, Str_no}
      [] prompt = "restart" -> Lower(resp) \in {Str_yes, Str_no}
      [] OTHER -> TRUE

\* what the prompts hand to the session is valid
ValidSelections ==
    /\ pc \notin {"city"} => city_file_name \in {chicago, new_york_city, washington}
    /\ time_period.period \in {"month", "day"} =>
          /\ time_period.month \in 1..6
          /\ time_period.day[1] \in 1..LastDay2017[time_period.month]
          /\ time_period.day[2] \in 1..LastDay2017[time_period.month]
    /\ pc = "day" => m \in 1..6

\* C7 as stated: at every prompt, restart included, an invalid response is
\* answered by an error message and the same prompt again.
C7_EveryPromptReprompts ==
    /\ (io.prompt \in ValidatedPrompts \cup {"restart"}
          /\ ~ValidResponse(io.prompt, io.resp))
       => (pc = io.prompt /\ io.err # "none")
    /\ ValidSelections

\* C7 amended: the city, granularity, month, day and view-records prompts
\* answer an invalid response with an error message and the same prompt
\* again and complete on a valid one; the restart prompt takes any response:
\* 'yes' starts a new session and anything else ends the program.
C7_ValidatedPromptsReprompt ==
    /\ io.prompt \in ValidatedPrompts =>
          IF ValidResponse(io.prompt, io.resp)
          THEN io.err = "none"
          ELSE pc = io.prompt /\ io.err # "none"
    /\ io.prompt = "restart" =>
          /\ io.err = "none"
          /\ IF Lower(io.resp) = Str_yes
             THEN pc = "city" /\ printed = <<>>
             ELSE pc = "exit"
    /\ ValidSelections

\* the 29th of February was refused and the day is asked again
C7_Witness ==
    /\ pc = "day"
    /\ m = 2
    /\ io.prompt = "day"
    /\ io.resp = <<"2", "9">>
    /\ io.err = "invalid_day"

\* the number of rows with the start and end station of row k
SameTrip(rows, k) ==
    Cardinality({j \in 1..Len(rows) :
                    /\ rows[j].start_station = rows[k].start_station
                    /\ rows[j].end_station = rows[k].end_station})

Stations(rows) ==
    [k \in 1..Len(rows) |-> <<rows[k].start_station, rows[k].end_station>>]

\* C8: on a non-empty table popular_trip returns ("{start} to {end}", n) for an
\* ordered pair (start, end) that n rows have and that no other ordered pair
\* exceeds; A->B, A->B, A->C gives ("A to B", 2) and start station ("A", 3).
C8_PopularTripOrderedPairs ==
    LET rows == city_data.rows
    IN  /\ (Called("popular_trip") /\ rows # <<>>) => Has("popular_trip")
        /\ Has("popular_trip") =>
              \E k \in 1..Len(rows) :
                 /\ Val("popular_trip")
                       = <<rows[k].start_station \o <<" ", "t", "o", " ">>
                              \o rows[k].end_station,
                           SameTrip(rows, k)>>
                 /\ \A j \in 1..Len(rows) : SameTrip(rows, j) <= SameTrip(rows, k)
        /\ (Has("popular_trip")
              /\ Stations(rows) = <<<<StationA, StationB>>, <<StationA, StationB>>,
                                    <<StationA, StationC>>>>)
           => /\ Val("popular_trip") = <<<<"A", " ", "t", "o", " ", "B">>, 2>>
              /\ Val("popular_stations").start = <<StationA, 3>>

C8_Witness ==
    /\ Has("popular_trip")
    /\ Stations(city_data.rows) = <<<<StationA, StationB>>, <<StationB, StationA>>,
                                    <<StationB, StationA>>>>
    /\ Val("popular_trip") = <<<<"B", " ", "t", "o", " ", "A">>, 2>>

\* the most frequent value of a series, the first encountered among equals
FirstSeenTop(s) ==
    CHOOSE v \in Range(s) :
        \A w \in Range(s) :
            \/ Count(s, w) < Count(s, v)
            \/ Count(s, w) = Count(s, v) /\ IndexOf(s, v) <= IndexOf(s, w)

Months(rows) == [k \in 1..Len(rows) |-> rows[k].start_time.month]
Weekdays(rows) == [k \in 1..Len(rows) |-> weekday(DtDate(rows[k].start_time))]
Hours(rows) == [k \in 1..Len(rows) |-> rows[k].start_time.hour]
Starts(rows) == [k \in 1..Len(rows) |-> rows[k].start_station]
Ends(rows) == [k \in 1..Len(rows) |-> rows[k].end_station]
Years(rows) ==
    SelectSeq([k \in 1..Len(rows) |-> rows[k].birth_year], LAMBDA y : y # NaNYear)

\* v is a value of the series that no value occurs more often than
IsTop(s, v) == v \in Range(s) /\ \A w \in Range(s) : Count(s, w) <= Count(s, v)

TopWithCount(s) == <<FirstSeenTop(s), Count(s, FirstSeenTop(s))>>

\* C9 as stated: every 'most popular' aggregator returns the first
\* encountered of the values tied for the highest count.
C9_FirstEncounteredWins ==
    LET rows == city_data.rows
    IN  /\ Has("popular_month") =>
              Val("popular_month") = <<month_name[FirstSeenTop(Months(rows))],
                                       Count(Months(rows), FirstSeenTop(Months(rows)))>>
        /\ Has("popular_day") =>
              Val("popular_day") = <<day_name[FirstSeenTop(Weekdays(rows)) + 1],
                                     Count(Weekdays(rows), FirstSeenTop(Weekdays(rows)))>>
        /\ Has("popular_hour") => Val("popular_hour") = TopWithCount(Hours(rows))
        /\ Has("popular_stations") =>
              /\ Val("popular_stations").start = TopWithCount(Starts(rows))
              /\ Val("popular_stations").end = TopWithCount(Ends(rows))
        /\ Has("birth_years") => Val("birth_years").mode = FirstSeenTop(Years(rows))
        /\ Has("popular_trip") =>
              LET p == FirstSeenTop(Stations(rows))
              IN  Val("popular_trip") = <<p[1] \o ToStr \o p[2], Count(Stations(rows), p)>>

\* C9 amended: every 'most popular' aggregator returns one of the values
\* tied for the highest count, with that count; it need not be the first
\* encountered one.
C9_TiedValueWins ==
    LET rows == city_data.rows
    IN  /\ Has("popular_month") =>
              \E v \in Range(Months(rows)) :
                 /\ IsTop(Months(rows), v)
                 /\ Val("popular_month") = <<month_name[v], Count(Months(rows), v)>>
        /\ Has("popular_day") =>
              \E v \in Range(Weekdays(rows)) :
                 /\ IsTop(Weekdays(rows), v)
                 /\ Val("popular_day") = <<day_name[v + 1], Count(Weekdays(rows), v)>>
        /\ Has("popular_hour") =>
              \E v \in Range(Hours(rows)) :
                 /\ IsTop(Hours(rows), v)
                 /\ Val("popular_hour") = <<v, Count(Hours(rows), v)>>
        /\ Has("popular_stations") =>
              /\ \E v \in Range(Starts(rows)) :
                    /\ IsTop(Starts(rows), v)
                    /\ Val("popular_stations").start = <<v, Count(Starts(rows), v)>>
              /\ \E v \in Range(Ends(rows)) :
                    /\ IsTop(Ends(rows), v)
                    /\ Val("popular_stations").end = <<v, Count(Ends(rows), v)>>
        /\ Has("birth_years") => IsTop(Years(rows), Val("birth_years").mode)
        /\ Has("popular_trip") =>
              \E p \in Range(Stations(rows)) :
                 /\ IsTop(Stations(rows), p)
                 /\ Val("popular_trip")
                       = <<p[1] \o ToStr \o p[2], Count(Stations(rows), p)>>

\* two rows that tie in every aggregate; the trip reported is the later one
C9_Witness ==
    /\ pc = "display_data"
    /\ Len(city_data.rows) = 2
    /\ Stations(city_data.rows) = <<<<StationB, StationA>>, <<StationA, StationB>>>>
    /\ Months(city_data.rows) = <<2, 1>>
    /\ Years(city_data.rows) = <<1995, 1980>>
    /\ Val("popular_month") = <<"February", 1>>
    /\ Val("popular_stations").start = <<StationB, 1>>
    /\ Val("birth_years").mode = 1995
    /\ Val("popular_trip") = <<<<"A", " ", "t", "o", " ", "B">>, 1>>

Pages == SelectSeq(printed, LAMBDA e : e.tag = "page")

RECURSIVE Concat(_)
Concat(pages) == IF pages = <<>> THEN <<>> ELSE pages[1].val \o Concat(Tail(pages))

\* C10: the pages show the rows in order, at most five a page, none skipped or
\* repeated; the continue prompt is asked only while rows remain to be shown;
\* no empty page follows the last row; the display ends with the end-of-file
\* notice once all rows are shown.
C10_Pagination ==
    LET rows == city_data.rows
        shown == Concat(Pages)
    IN  /\ Len(shown) <= Len(rows)
        /\ shown = SubSeq(rows, 1, Len(shown))
        /\ \A k \in 1..Len(Pages) : Len(Pages[k].val) <= 5
        /\ pc = "continue" => Len(shown) < Len(rows)
        /\ \A k \in 1..Len(Pages) : (Pages[k].val = <<>>) => rows = <<>>
        /\ (pc = "restart" /\ Pages # <<>> /\ Len(shown) = Len(rows))
              => Has("end_of_file")

====
